---------------------------- MODULE Spec2Model ----------------------------
(***************************************************************************)
(* PDF invoice to Excel: the batch orchestrator (PDFProcessor), the OCR    *)
(* and LLM client wrappers it calls, and the spreadsheet writer.           *)
(*                                                                         *)
(* Python values are modelled as records of one shape                      *)
(*   [kind, s, n, items]                                                   *)
(* kind: "null" | "bool" | "num" | "str" | "arr" | "obj" | "pair".         *)
(* A dict is an "obj" whose items are "pair" records (key in s, value in   *)
(* items[1]) in insertion order; None is "null".                           *)
(* A text (an LLM response) is a sequence of lexemes: punctuation,         *)
(* literals, quoted strings, blanks and arbitrary words.                   *)
(***************************************************************************)
EXTENDS Integers, Sequences, FiniteSets, TLC

---------------------------------------------------------------------------
(* Bounds of the model *)

\* largest batch handed to a processing mode
MaxFiles == 3

\* longest list of results handed to create_excel_file
MaxResults == 2

\* the most files uploaded in one run of the application
MaxUploads == 6

---------------------------------------------------------------------------
(* Python / JSON values *)

PyVal(k, str, num, its) == [kind |-> k, s |-> str, n |-> num, items |-> its]

None == PyVal("null", "", 0, <<>>)

PyBool(b) == PyVal("bool", "", IF b THEN 1 ELSE 0, <<>>)

PyNum(i) == PyVal("num", "", i, <<>>)

PyStr(str) == PyVal("str", str, 0, <<>>)

PyList(its) == PyVal("arr", "", 0, its)

PyDict(pairs) == PyVal("obj", "", 0, pairs)

Pair(k, v) == PyVal("pair", k, 0, <<v>>)

IsDict(v) == v.kind = "obj"

\* bool(v): None, False, 0, "", [] and {} are falsy
Truthy(v) ==
    CASE v.kind = "null" -> FALSE
      [] v.kind = "bool" -> v.n = 1
      [] v.kind = "num" -> v.n # 0
      [] v.kind = "str" -> v.s # ""
      [] OTHER -> v.items # <<>>

\* key in d, for a dict d
HasKey(d, k) == \E i \in 1..Len(d.items) : d.items[i].s = k

\* d.get(k, default), for a dict d
DictGet(d, k, default) ==
    IF HasKey(d, k)
    THEN d.items[CHOOSE i \in 1..Len(d.items) : d.items[i].s = k].items[1]
    ELSE default

\* d[k] = v on the pair list of a dict: a repeated key keeps its place
DictPut(pairs, k, v) ==
    IF \E i \in 1..Len(pairs) : pairs[i].s = k
    THEN [i \in 1..Len(pairs) |-> IF pairs[i].s = k THEN Pair(k, v) ELSE pairs[i]]
    ELSE Append(pairs, Pair(k, v))

---------------------------------------------------------------------------
(* json.loads on a text of lexemes *)

\* the string contents that occur in the modelled texts
StrLits ==
    { "", "x", "F1", "N/A", "raw_text", "datos_factura", "totales",
      "resumen_tabular", "conceptos_facturacion", "numero_factura",
      "fecha_emision", "gran_total", "concepto", "importe" }

Quote(str) == "\"" \o str \o "\""

IsStrTok(t) == \E str \in StrLits : Quote(str) = t

Unquote(t) == CHOOSE str \in StrLits : Quote(str) = t

NumToks == { "0", "1", "2" }

NumVal(t) == CASE t = "0" -> 0 [] t = "1" -> 1 [] OTHER -> 2

Blank == " "

RECURSIVE SkipWs(_)
SkipWs(toks) ==
    IF toks # <<>> /\ Head(toks) = Blank THEN SkipWs(Tail(toks)) ELSE toks

ParseFail == [ok |-> FALSE, val |-> None, rest |-> <<>>]

ParseOk(v, rest) == [ok |-> TRUE, val |-> v, rest |-> rest]

RECURSIVE ParseValue(_), ParseElems(_, _), ParseMembers(_, _)

\* one JSON value at the front of toks (leading blanks skipped)
ParseValue(toks0) ==
    LET toks == SkipWs(toks0) IN
    IF toks = <<>> THEN ParseFail
    ELSE LET h == Head(toks)
             r == Tail(toks) IN
         CASE h = "null" -> ParseOk(None, r)
           [] h = "true" -> ParseOk(PyBool(TRUE), r)
           [] h = "false" -> ParseOk(PyBool(FALSE), r)
           [] h \in NumToks -> ParseOk(PyNum(NumVal(h)), r)
           [] h = "[" ->
                LET b == SkipWs(r) IN
                IF b # <<>> /\ Head(b) = "]"
                THEN ParseOk(PyList(<<>>), Tail(b))
                ELSE ParseElems(r, <<>>)
           [] h = "{" ->
                LET b == SkipWs(r) IN
                IF b # <<>> /\ Head(b) = "}"
                THEN ParseOk(PyDict(<<>>), Tail(b))
                ELSE ParseMembers(r, <<>>)
           [] OTHER ->
                IF IsStrTok(h) THEN ParseOk(PyStr(Unquote(h)), r) ELSE ParseFail

\* the elements of an array after "[" or ",": value ("," value)* "]"
ParseElems(toks, acc) ==
    LET e == ParseValue(toks) IN
    IF ~e.ok THEN ParseFail
    ELSE LET u == SkipWs(e.rest) IN
         IF u = <<>> THEN ParseFail
         ELSE IF Head(u) = "," THEN ParseElems(Tail(u), Append(acc, e.val))
         ELSE IF Head(u) = "]" THEN ParseOk(PyList(Append(acc, e.val)), Tail(u))
         ELSE ParseFail

\* the members of an object after "{" or ",": string ":" value ("," ...)* "}"
ParseMembers(toks0, acc) ==
    LET toks == SkipWs(toks0) IN
    IF toks = <<>> \/ ~IsStrTok(Head(toks)) THEN ParseFail
    ELSE LET k == Unquote(Head(toks))
             c == SkipWs(Tail(toks)) IN
         IF c = <<>> \/ Head(c) # ":" THEN ParseFail
         ELSE LET e == ParseValue(Tail(c)) IN
              IF ~e.ok THEN ParseFail
              ELSE LET u == SkipWs(e.rest) IN
                   IF u = <<>> THEN ParseFail
                   ELSE IF Head(u) = ","
                        THEN ParseMembers(Tail(u), DictPut(acc, k, e.val))
                   ELSE IF Head(u) = "}"
                        THEN ParseOk(PyDict(DictPut(acc, k, e.val)), Tail(u))
                   ELSE ParseFail

\* json.loads(text): the value, or JSONDecodeError (ok = FALSE) when the
\* text is no JSON document or data follows the document
JsonLoads(text) ==
    LET e == ParseValue(text) IN
    IF e.ok /\ SkipWs(e.rest) = <<>> THEN e ELSE ParseFail

---------------------------------------------------------------------------
(* Inputs of a run: configuration, files, and what the services answer *)

\* an optional integer: a constructor argument left None, a YAML key left out
Absent == [has |-> FALSE, v |-> 0]

Some(i) == [has |-> TRUE, v |-> i]

\* parallel_config.get("max_workers", 3)
DefaultMaxWorkers == 3

\* .get("chunk_size", 5)
DefaultChunkSize == 5

\* the OCR text of a converted PDF
OcrText == "TEXT"

\* what one file meets on its way: its path, the OCR service's answer, and
\* the chat model's answer (an exception, or the response text)
Outcome(p, o, raises, text) ==
    [path |-> p, ocr |-> o, llm_raises |-> raises, resp |-> text]

\* responses that are JSON documents with a truthy value
TruthyJson ==
    { <<"{", Quote("x"), ":", "1", "}">>,
      <<"[", "1", "]">>,
      <<"1">>,
      <<Quote("x")>>,
      <<"true">>,
      <<" ", "{", Quote("x"), ":", " ", "null", ",", Quote("x"), ":", "[", "]", "}", " ">>,
      <<"{", Quote("raw_text"), ":", Quote(""), "}">> }

\* responses that are JSON documents with a falsy value
FalsyJson ==
    { <<"{", "}">>, <<"[", "]">>, <<"null">>, <<"false">>, <<"0">>,
      <<Quote("")>>, <<" ", "{", " ", "}", " ">> }

\* responses that are no JSON document
NotJson ==
    { <<>>, <<" ">>, <<"hola">>, <<"{">>, <<"[", "1", ",", "]">>,
      <<"{", "}", "{", "}">>, <<"<md-fence>", "{", "}", "<md-fence>">>,
      <<"{", Quote("x"), "}">>, <<"{", "x", ":", "1", "}">>,
      <<"1", " ", "1">> }

Responses == TruthyJson \cup FalsyJson \cup NotJson

PathKinds == { "ok", "missing", "not_pdf" }

OcrKinds ==
    { "text", "empty_text", "no_field", "vendor_error",
      "vendor_error_no_message", "timeout" }

\* every way a single file can go
SingleOutcomes ==
    { Outcome(p, "text", FALSE, <<>>) : p \in PathKinds \ {"ok"} }
    \cup { Outcome("ok", o, FALSE, <<>>) : o \in OcrKinds \ {"text"} }
    \cup { Outcome("ok", "text", TRUE, <<>>) }
    \cup { Outcome("ok", "text", FALSE, r) : r \in Responses }

\* the ways a file of a batch can go: success, OCR failure, chat exception,
\* an empty JSON object, a response that is no JSON
BatchOutcomes ==
    { Outcome("ok", "text", FALSE, <<"{", Quote("x"), ":", "1", "}">>),
      Outcome("ok", "vendor_error", FALSE, <<>>),
      Outcome("ok", "text", TRUE, <<>>),
      Outcome("ok", "text", FALSE, <<"{", "}">>),
      Outcome("ok", "text", FALSE, <<"hola">>) }

---------------------------------------------------------------------------
(* The client wrappers and the single-file pipeline, as functions of the
   file's outcome *)

\* the response text as one Python string
RECURSIVE Join(_)
Join(text) == IF text = <<>> THEN "" ELSE Head(text) \o Join(Tail(text))

\* convert_pdf_to_text reaches client.whisper: the client exists, the path
\* exists and has the suffix .pdf
WhisperCalled(client, e) == client /\ e.path = "ok"

\* convert_pdf_to_text raises: client.whisper raised an
\* LLMWhispererClientException that has no attribute message, and the
\* handler of that class reads e.message for its log line
convert_pdf_to_text_raises(client, e) ==
    WhisperCalled(client, e) /\ e.ocr = "vendor_error_no_message"

\* what convert_pdf_to_text returns when it does not raise: the response
\* envelope's result_text, None when the envelope lacks it, and None for
\* an exception of client.whisper
convert_pdf_to_text(client, e) ==
    IF ~client THEN None
    ELSE IF e.path = "missing" THEN None
    ELSE IF e.path = "not_pdf" THEN None
    ELSE CASE e.ocr = "text" -> PyStr(OcrText)
           [] e.ocr = "empty_text" -> PyStr("")
           [] e.ocr = "no_field" -> None
           [] OTHER -> None

\* as _extract_data_with_openai, with a JSONDecodeError handled as an error
_extract_data_NoFallback(e) ==
    IF e.llm_raises THEN None
    ELSE LET parsed == JsonLoads(e.resp) IN
         IF parsed.ok THEN parsed.val ELSE None

\* chat_with_system_prompt, then json.loads with the raw-text fallback
_extract_data_with_openai(e) ==
    IF e.llm_raises THEN None
    ELSE LET parsed == JsonLoads(e.resp) IN
         IF parsed.ok THEN parsed.val
         ELSE PyDict(<<Pair("raw_text", PyStr(Join(e.resp)))>>)

\* what process_single_pdf returns: a result dict, or None (ok = FALSE)
NoResult ==
    [ok |-> FALSE, file_name |-> 0, structured_text |-> None,
     extracted_data |-> None]

Result(f, text, data) ==
    [ok |-> TRUE, file_name |-> f, structured_text |-> text,
     extracted_data |-> data]

\* as ResultAfterExtraction, with "if extracted_data is None" for the test
ResultAfterExtraction_IsNone(f, text, data) ==
    IF data = None THEN NoResult ELSE Result(f, text, data)

\* process_single_pdf after the LLM step: the result, unless the data is falsy
ResultAfterExtraction(f, text, data) ==
    IF ~Truthy(data) THEN NoResult ELSE Result(f, text, data)

\* self.max_workers = max_workers or parallel_config.get("max_workers", 3)
MaxWorkersOf(ctor, cfg) ==
    IF ctor.has /\ ctor.v # 0 THEN ctor.v
    ELSE IF cfg.max_workers.has THEN cfg.max_workers.v
    ELSE DefaultMaxWorkers

\* self.config.get("parallel_processing", {}).get("chunk_size", 5)
ChunkSizeOf(cfg) ==
    IF cfg.chunk_size.has THEN cfg.chunk_size.v ELSE DefaultChunkSize

---------------------------------------------------------------------------
(* The spreadsheet writer's rows, as functions of the list of results *)

EmptyDict == PyDict(<<>>)

\* the placeholder of the summary sheet
NA == PyStr("N/A")

\* a or b
PyOr(a, b) == IF Truthy(a) THEN a ELSE b

\* "extracted_data" in data and isinstance(data["extracted_data"], dict)
HasDictData(r) == IsDict(r.extracted_data)

\* building the summary row of result r raises AttributeError: .get is
\* called on a value that is no dict (the second operand of "or" is only
\* evaluated when the first is falsy)
SummaryRowRaises(r) ==
    LET datos_factura == DictGet(r.extracted_data, "datos_factura", EmptyDict)
        totales == DictGet(r.extracted_data, "totales", EmptyDict)
        resumen_tabular == DictGet(r.extracted_data, "resumen_tabular", EmptyDict)
    IN  \/ ~IsDict(datos_factura)
        \/ ~Truthy(DictGet(datos_factura, "numero_factura", None))
               /\ ~IsDict(resumen_tabular)
        \/ ~IsDict(totales)
        \/ ~Truthy(DictGet(totales, "gran_total", None))
               /\ ~IsDict(resumen_tabular)

\* as SummaryRow, with .get("fecha_emision") left without its default
SummaryRow_NoDefault(r) ==
    LET datos_factura == DictGet(r.extracted_data, "datos_factura", EmptyDict)
        totales == DictGet(r.extracted_data, "totales", EmptyDict)
        resumen_tabular == DictGet(r.extracted_data, "resumen_tabular", EmptyDict)
    IN  << PyNum(r.file_name),
           PyOr(DictGet(datos_factura, "numero_factura", None),
                DictGet(resumen_tabular, "numero_factura", NA)),
           DictGet(datos_factura, "fecha_emision", None),
           PyOr(DictGet(totales, "gran_total", None),
                DictGet(resumen_tabular, "gran_total", NA)) >>

\* the summary row of result r: Archivo, Numero de Factura, Fecha, Total
SummaryRow(r) ==
    LET datos_factura == DictGet(r.extracted_data, "datos_factura", EmptyDict)
        totales == DictGet(r.extracted_data, "totales", EmptyDict)
        resumen_tabular == DictGet(r.extracted_data, "resumen_tabular", EmptyDict)
    IN  << PyNum(r.file_name),
           PyOr(DictGet(datos_factura, "numero_factura", None),
                DictGet(resumen_tabular, "numero_factura", NA)),
           DictGet(datos_factura, "fecha_emision", NA),
           PyOr(DictGet(totales, "gran_total", None),
                DictGet(resumen_tabular, "gran_total", NA)) >>

SummaryColumns == << "Archivo", "Numero de Factura", "Fecha", "Total" >>

\* summary_data, or the exception its loop raises
SummaryData(data) ==
    LET ds == SelectSeq(data, HasDictData) IN
    [raised |-> \E i \in 1..Len(ds) : SummaryRowRaises(ds[i]),
     rows |-> [i \in 1..Len(ds) |-> SummaryRow(ds[i])]]

\* the columns of the detail sheet after Archivo: title, key, default
DetailFields ==
    << <<"Numero de Factura", "numero_factura", PyStr("")>>,
       <<"NIS", "nis", PyStr("")>>,
       <<"Mes de la Factura", "mes_factura", PyStr("")>>,
       <<"Tarifa", "tarifa", PyStr("")>>,
       <<"Sector", "sector", PyStr("")>>,
       <<"Total del Mes", "total_mes", PyNum(0)>>,
       <<"Gran Total", "gran_total", PyNum(0)>>,
       <<"Consumo kWh", "historico_consumo_kwh", PyNum(0)>>,
       <<"Cargo Fijo", "cargo_fijo", PyNum(0)>>,
       <<"Energia", "energia", PyNum(0)>>,
       <<"Interes por Mora", "interes_por_mora", PyNum(0)>>,
       <<"Subsidio Ley 15", "subsidio_ley_15_recargo", PyNum(0)>>,
       <<"Var. Combustible", "var_combustible", PyNum(0)>>,
       <<"Var. Transmision", "var_transmision", PyNum(0)>>,
       <<"Var. Generacion", "var_generacion", PyNum(0)>> >>

DetailColumns ==
    <<"Archivo">> \o [i \in 1..Len(DetailFields) |-> DetailFields[i][1]]

\* resumen_tabular of result r
ResumenTabular(r) == DictGet(r.extracted_data, "resumen_tabular", EmptyDict)

\* result r has a detail row: if resumen_tabular
HasDetail(r) == HasDictData(r) /\ Truthy(ResumenTabular(r))

\* the detail row of result r
DetailRow(r) ==
    <<PyNum(r.file_name)>> \o
    [i \in 1..Len(DetailFields) |->
        DictGet(ResumenTabular(r), DetailFields[i][2], DetailFields[i][3])]

\* detailed_data, or the exception its loop raises: a truthy
\* resumen_tabular that is no dict has no .get
DetailData(data) ==
    LET ds == SelectSeq(data, HasDetail) IN
    [raised |-> \E i \in 1..Len(ds) : ~IsDict(ResumenTabular(ds[i])),
     rows |-> [i \in 1..Len(ds) |-> DetailRow(ds[i])]]

ConceptColumns == << "Archivo", "Concepto", "Importe" >>

\* conceptos of result r
Conceptos(r) == DictGet(r.extracted_data, "conceptos_facturacion", PyList(<<>>))

\* "for concepto in conceptos" with its body raises: conceptos is not
\* iterable (None, a number, a boolean), or an element has no .get (an
\* element of a list that is no dict, a key of a dict, a character)
ConceptosRaise(c) ==
    CASE c.kind \in {"null", "num", "bool"} -> TRUE
      [] c.kind = "str" -> c.s # ""
      [] c.kind = "obj" -> c.items # <<>>
      [] OTHER -> \E i \in 1..Len(c.items) : ~IsDict(c.items[i])

\* the rows of one result's conceptos, a list of dicts
ConceptRowsOf(r) ==
    LET c == Conceptos(r) IN
    IF c.kind # "arr" THEN <<>>
    ELSE [i \in 1..Len(c.items) |->
             << PyNum(r.file_name),
                DictGet(c.items[i], "concepto", NA),
                DictGet(c.items[i], "importe", PyNum(0)) >>]

RECURSIVE ConcatRows(_)
ConcatRows(ds) ==
    IF ds = <<>> THEN <<>> ELSE ConceptRowsOf(Head(ds)) \o ConcatRows(Tail(ds))

\* concepts_data, or the exception its loops raise
ConceptsData(data) ==
    LET ds == SelectSeq(data, HasDictData) IN
    [raised |-> \E i \in 1..Len(ds) : ConceptosRaise(Conceptos(ds[i])),
     rows |-> ConcatRows(ds)]

\* DataFrame(rows).to_excel raises: a cell holds a list or a dict, which
\* the workbook cannot store
ToExcelRaises(rows) ==
    \E i \in 1..Len(rows) : \E j \in 1..Len(rows[i]) :
        rows[i][j].kind \in {"arr", "obj"}

\* a sheet of the workbook; complete is FALSE when writing it stopped early
Sheet(name, columns, rows, complete) ==
    [name |-> name, columns |-> columns, rows |-> rows, complete |-> complete]

\* the file at output_path: absent, created but no workbook, or a workbook
NoFile == [kind |-> "absent", sheets |-> <<>>]

Truncated == [kind |-> "truncated", sheets |-> <<>>]

Workbook(shs) == [kind |-> "workbook", sheets |-> shs]

---------------------------------------------------------------------------
(* The orchestrator's state *)

VARIABLES
    ctor_max_workers,    \* PDFProcessor(max_workers=...): Absent is None
    config,              \* parallel_processing of the YAML configuration
    llmwhisperer_client, \* self.llmwhisperer_client is not None
    nfiles,              \* the files of the run (saved_files) are 1..nfiles, in list order
    env,                 \* each file's outcome
    plan,                \* the processing modes still to be called
    mode,                \* the mode being run
    pc,                  \* where the calling thread is
    chunk_lo,            \* i of process_multiple_pdfs_in_chunks' loop
    batch,               \* pdf_paths of the current process_multiple_pdfs
    submitted,           \* how many of batch have been submitted to the pool
    st,                  \* each file's pipeline: idle, queued, ocr, llm, done
    fut,                 \* each file's future: what process_single_pdf returned
    finished,            \* the files of the batch in the order they completed
    snap,                \* as_completed's futures found finished at its start
    yielded,             \* the futures as_completed has yielded
    results,             \* results of process_multiple_pdfs
    all_results,         \* all_results of process_multiple_pdfs_in_chunks
    ocr_calls,           \* client.whisper calls made for each file
    llm_calls,           \* chat calls made for each file
    hist,                \* how each call of the plan ended
    processed_data,      \* create_excel_file's list of results
    writable,            \* output_path can be opened for writing
    xpc,                 \* where create_excel_file is
    sheets,              \* the sheets of the writer's workbook
    exc,                 \* the exception create_excel_file has met, or ""
    disk,                \* the file at output_path
    ret,                 \* what create_excel_file returned
    api_keys,            \* OPENAI_API_KEY and LLMWHISPERER_API_KEY of the environment
    apc,                 \* where main is
    clients_initialized, \* how often _initialize_clients has built the clients
    raised,              \* the exception PDFProcessor() has raised, or ""
    ui                   \* the messages and widgets main has shown

orch_vars ==
    << ctor_max_workers, config, llmwhisperer_client, nfiles, env, plan, mode,
       pc, chunk_lo, batch, submitted, st, fut, finished, snap, yielded,
       results, all_results, ocr_calls, llm_calls, hist >>

excel_vars == << processed_data, writable, xpc, sheets, exc, disk, ret >>

app_vars == << api_keys, apc, clients_initialized, raised, ui >>

Files == 1..nfiles

Range(seq) == { seq[i] : i \in 1..Len(seq) }

Min(a, b) == IF a < b THEN a ELSE b

\* self.max_workers
max_workers == MaxWorkersOf(ctor_max_workers, config)

\* chunk_size
chunk_size == ChunkSizeOf(config)

\* the pipelines that are executing: taken by a thread and not yet returned
Running == { f \in Files : st[f] \in {"ocr", "llm"} }

\* the inputs stay as they are
InputsUnchanged ==
    /\ UNCHANGED << ctor_max_workers, config, llmwhisperer_client, nfiles, env >>
    /\ UNCHANGED excel_vars
    /\ UNCHANGED app_vars

\* a call of the plan ends: it returns value, or raises error
Ended(status, error, value) ==
    /\ hist' = Append(hist, [mode |-> mode, status |-> status, exc |-> error,
                             value |-> value])
    /\ pc' = "idle"

Return(value) == Ended("returned", "", value)

Raise(error) == Ended("raised", error, <<>>)

\* no pipeline has run yet
FreshPipelines ==
    /\ fut' = [f \in Files |-> NoResult]
    /\ ocr_calls' = [f \in Files |-> 0]
    /\ llm_calls' = [f \in Files |-> 0]
    /\ finished' = <<>>
    /\ snap' = {}
    /\ yielded' = {}
    /\ results' = <<>>
    /\ all_results' = <<>>
    /\ submitted' = 0
    /\ chunk_lo' = 0

\* the caller runs process_single_pdf(saved_files[0]) itself
CallSingle ==
    /\ pc = "idle" /\ plan # <<>> /\ Head(plan) = "single"
    /\ nfiles >= 1
    /\ mode' = "single" /\ plan' = Tail(plan)
    /\ FreshPipelines
    /\ batch' = <<1>>
    /\ st' = [f \in Files |-> IF f = 1 THEN "queued" ELSE "idle"]
    /\ pc' = "single"
    /\ UNCHANGED hist
    /\ InputsUnchanged

\* process_multiple_pdfs(pdf_paths)
CallParallel ==
    /\ pc = "idle" /\ plan # <<>> /\ Head(plan) = "parallel"
    /\ mode' = "parallel" /\ plan' = Tail(plan)
    /\ FreshPipelines
    /\ st' = [f \in Files |-> "idle"]
    /\ batch' = [i \in 1..nfiles |-> i]
    /\ pc' = "pool_new"
    /\ UNCHANGED hist
    /\ InputsUnchanged

\* process_multiple_pdfs_in_chunks(pdf_paths)
CallChunked ==
    /\ pc = "idle" /\ plan # <<>> /\ Head(plan) = "chunked"
    /\ mode' = "chunked" /\ plan' = Tail(plan)
    /\ FreshPipelines
    /\ st' = [f \in Files |-> "idle"]
    /\ batch' = <<>>
    /\ pc' = "chunk_init"
    /\ UNCHANGED hist
    /\ InputsUnchanged

\* total_chunks = (total_pdfs + chunk_size - 1) // chunk_size
ChunkInit ==
    /\ pc = "chunk_init"
    /\ IF chunk_size = 0
       THEN Raise("ZeroDivisionError")
       ELSE pc' = "chunk_loop" /\ UNCHANGED hist
    /\ UNCHANGED << plan, mode, chunk_lo, batch, submitted, st, fut, finished,
                    snap, yielded, results, all_results, ocr_calls, llm_calls >>
    /\ InputsUnchanged

\* as ChunkAt, with the slice pdf_paths[i:] running to the end of the list
ChunkAt_Rest(lo, size, n) == [k \in 1..(n - lo) |-> lo + k]

\* pdf_paths[i:i + chunk_size], as the files it holds
ChunkAt(lo, size, n) == [k \in 1..(Min(lo + size, n) - lo) |-> lo + k]

\* for i in range(0, total_pdfs, chunk_size): the next chunk, or the return
ChunkNext ==
    /\ pc = "chunk_loop"
    /\ IF chunk_size > 0 /\ chunk_lo < nfiles
       THEN /\ batch' = ChunkAt(chunk_lo, chunk_size, nfiles)
            /\ pc' = "pool_new"
            /\ UNCHANGED hist
       ELSE /\ Return(all_results)
            /\ UNCHANGED batch
    /\ UNCHANGED << plan, mode, chunk_lo, submitted, st, fut, finished, snap,
                    yielded, results, all_results, ocr_calls, llm_calls >>
    /\ InputsUnchanged

\* results = []; ThreadPoolExecutor(max_workers=self.max_workers)
PoolNew ==
    /\ pc = "pool_new"
    /\ results' = <<>>
    /\ submitted' = 0
    /\ finished' = <<>>
    /\ snap' = {}
    /\ yielded' = {}
    /\ IF max_workers <= 0
       THEN Raise("ValueError")
       ELSE pc' = "submit" /\ UNCHANGED hist
    /\ UNCHANGED << plan, mode, chunk_lo, batch, st, fut, all_results,
                    ocr_calls, llm_calls >>
    /\ InputsUnchanged

\* executor.submit(self.process_single_pdf, pdf_path), in list order
SubmitTask ==
    /\ pc = "submit"
    /\ submitted < Len(batch)
    /\ st' = [st EXCEPT ![batch[submitted + 1]] = "queued"]
    /\ submitted' = submitted + 1
    /\ UNCHANGED << plan, mode, pc, chunk_lo, batch, fut, finished, snap,
                    yielded, results, all_results, ocr_calls, llm_calls, hist >>
    /\ InputsUnchanged

\* as_completed(future_to_pdf) starts: the futures already finished
AsCompleted ==
    /\ pc = "submit"
    /\ submitted = Len(batch)
    /\ snap' = { f \in Range(batch) : st[f] = "done" }
    /\ pc' = "collect"
    /\ UNCHANGED << plan, mode, chunk_lo, batch, submitted, st, fut, finished,
                    yielded, results, all_results, ocr_calls, llm_calls, hist >>
    /\ InputsUnchanged

\* as MayYield, with the finished futures yielded in any order
MayYield_AnyDone(f) ==
    f \in Range(batch) /\ f \notin yielded /\ st[f] = "done"

\* the future as_completed may yield next: any of those finished at its
\* start, then the others in the order they complete
MayYield(f) ==
    /\ f \in Range(batch) /\ f \notin yielded /\ st[f] = "done"
    /\ IF snap \ yielded # {}
       THEN f \in snap
       ELSE \A i, j \in 1..Len(finished) :
                (finished[j] = f /\ i < j) => finished[i] \in yielded

\* as Collect, without the test "if result"
Collect_AppendsAll(f) ==
    /\ pc = "collect"
    /\ MayYield(f)
    /\ yielded' = yielded \cup {f}
    /\ UNCHANGED snap
    /\ results' = Append(results, fut[f])
    /\ UNCHANGED << plan, mode, pc, chunk_lo, batch, submitted, st, fut,
                    finished, all_results, ocr_calls, llm_calls, hist >>
    /\ InputsUnchanged

\* as Collect, with a failed file ending the loop by an exception
Collect_Reraises(f) ==
    /\ pc = "collect"
    /\ MayYield(f)
    /\ yielded' = yielded \cup {f}
    /\ UNCHANGED snap
    /\ IF fut[f].ok
       THEN /\ results' = Append(results, fut[f])
            /\ UNCHANGED << pc, hist >>
       ELSE /\ Raise("RuntimeError")
            /\ UNCHANGED results
    /\ UNCHANGED << plan, mode, chunk_lo, batch, submitted, st, fut,
                    finished, all_results, ocr_calls, llm_calls >>
    /\ InputsUnchanged

\* the loop body: result = future.result(); if result: results.append(result)
Collect(f) ==
    /\ pc = "collect"
    /\ MayYield(f)
    /\ yielded' = yielded \cup {f}
    /\ UNCHANGED snap
    /\ results' = IF fut[f].ok THEN Append(results, fut[f]) ELSE results
    /\ UNCHANGED << plan, mode, pc, chunk_lo, batch, submitted, st, fut,
                    finished, all_results, ocr_calls, llm_calls, hist >>
    /\ InputsUnchanged

\* as PoolExit, with the pool left while futures are still to be yielded
PoolExit_NoWait ==
    /\ pc = "collect"
    /\ IF Len(batch) = 0
       THEN Raise("ZeroDivisionError") /\ UNCHANGED << all_results, chunk_lo >>
       ELSE IF mode = "parallel"
       THEN Return(results) /\ UNCHANGED << all_results, chunk_lo >>
       ELSE /\ all_results' = all_results \o results
            /\ chunk_lo' = chunk_lo + chunk_size
            /\ pc' = "chunk_loop"
            /\ UNCHANGED hist
    /\ UNCHANGED << plan, mode, batch, submitted, st, fut, finished, snap,
                    yielded, results, ocr_calls, llm_calls >>
    /\ InputsUnchanged

\* the with block ends (shutdown waits for the workers), the two summary
\* lines are logged (the second divides by total_pdfs) and results returned
PoolExit ==
    /\ pc = "collect"
    /\ yielded = Range(batch)
    /\ IF Len(batch) = 0
       THEN Raise("ZeroDivisionError") /\ UNCHANGED << all_results, chunk_lo >>
       ELSE IF mode = "parallel"
       THEN Return(results) /\ UNCHANGED << all_results, chunk_lo >>
       ELSE /\ all_results' = all_results \o results
            /\ chunk_lo' = chunk_lo + chunk_size
            /\ pc' = "chunk_loop"
            /\ UNCHANGED hist
    /\ UNCHANGED << plan, mode, batch, submitted, st, fut, finished, snap,
                    yielded, results, ocr_calls, llm_calls >>
    /\ InputsUnchanged

\* as CanRun, with a thread for every submitted file
CanRun_Unbounded(f) ==
    IF mode = "single"
    THEN pc = "single"
    ELSE \A g \in Range(batch) : g < f => st[g] # "queued"

\* a thread may take file f: in single mode the caller runs it; in the pool
\* the queue is first in first out and at most max_workers threads exist
CanRun(f) ==
    IF mode = "single"
    THEN pc = "single"
    ELSE /\ \A g \in Range(batch) : g < f => st[g] # "queued"
         /\ Cardinality(Running) < max_workers

\* process_single_pdf returns r for file f
Complete(f, r) ==
    /\ st' = [st EXCEPT ![f] = "done"]
    /\ fut' = [fut EXCEPT ![f] = r]
    /\ finished' = Append(finished, f)

\* process_single_pdf begins: convert_pdf_to_text up to client.whisper
StartTask(f) ==
    /\ f \in Files /\ st[f] = "queued"
    /\ CanRun(f)
    /\ IF WhisperCalled(llmwhisperer_client, env[f])
       THEN /\ st' = [st EXCEPT ![f] = "ocr"]
            /\ ocr_calls' = [ocr_calls EXCEPT ![f] = @ + 1]
            /\ UNCHANGED << fut, finished >>
       ELSE /\ Complete(f, NoResult)
            /\ UNCHANGED ocr_calls
    /\ UNCHANGED << plan, mode, pc, chunk_lo, batch, submitted, snap, yielded,
                    results, all_results, llm_calls, hist >>
    /\ InputsUnchanged

\* as OcrReturn, with a failed conversion tried a second time
OcrReturn_Retry(f) ==
    /\ f \in Files /\ st[f] = "ocr"
    /\ IF /\ ~convert_pdf_to_text_raises(llmwhisperer_client, env[f])
          /\ Truthy(convert_pdf_to_text(llmwhisperer_client, env[f]))
       THEN /\ st' = [st EXCEPT ![f] = "llm"]
            /\ llm_calls' = [llm_calls EXCEPT ![f] = @ + 1]
            /\ UNCHANGED << fut, finished, ocr_calls >>
       ELSE IF ocr_calls[f] < 2
       THEN /\ ocr_calls' = [ocr_calls EXCEPT ![f] = @ + 1]
            /\ UNCHANGED << st, fut, finished, llm_calls >>
       ELSE /\ Complete(f, NoResult)
            /\ UNCHANGED << llm_calls, ocr_calls >>
    /\ UNCHANGED << plan, mode, pc, chunk_lo, batch, submitted, snap, yielded,
                    results, all_results, hist >>
    /\ InputsUnchanged

\* as OcrReturn, with the chat called whatever the conversion gave
OcrReturn_AlwaysLlm(f) ==
    /\ f \in Files /\ st[f] = "ocr"
    /\ st' = [st EXCEPT ![f] = "llm"]
    /\ llm_calls' = [llm_calls EXCEPT ![f] = @ + 1]
    /\ UNCHANGED << fut, finished >>
    /\ UNCHANGED << plan, mode, pc, chunk_lo, batch, submitted, snap, yielded,
                    results, all_results, ocr_calls, hist >>
    /\ InputsUnchanged

\* client.whisper is over: no text, or an exception of convert_pdf_to_text
\* (caught by process_single_pdf), ends the pipeline; text goes to the chat
OcrReturn(f) ==
    /\ f \in Files /\ st[f] = "ocr"
    /\ IF /\ ~convert_pdf_to_text_raises(llmwhisperer_client, env[f])
          /\ Truthy(convert_pdf_to_text(llmwhisperer_client, env[f]))
       THEN /\ st' = [st EXCEPT ![f] = "llm"]
            /\ llm_calls' = [llm_calls EXCEPT ![f] = @ + 1]
            /\ UNCHANGED << fut, finished >>
       ELSE /\ Complete(f, NoResult)
            /\ UNCHANGED llm_calls
    /\ UNCHANGED << plan, mode, pc, chunk_lo, batch, submitted, snap, yielded,
                    results, all_results, ocr_calls, hist >>
    /\ InputsUnchanged

\* as LlmReturn, with the worker appending its result to results itself
LlmReturn_Appends(f) ==
    /\ f \in Files /\ st[f] = "llm"
    /\ LET r == ResultAfterExtraction(
                    f, convert_pdf_to_text(llmwhisperer_client, env[f]),
                    _extract_data_with_openai(env[f]))
       IN  /\ Complete(f, r)
           /\ results' = IF r.ok THEN Append(results, r) ELSE results
    /\ UNCHANGED << plan, mode, pc, chunk_lo, batch, submitted, snap, yielded,
                    all_results, ocr_calls, llm_calls, hist >>
    /\ InputsUnchanged

\* the chat call is over: the response is parsed and the result returned
LlmReturn(f) ==
    /\ f \in Files /\ st[f] = "llm"
    /\ Complete(f, ResultAfterExtraction(
                       f, convert_pdf_to_text(llmwhisperer_client, env[f]),
                       _extract_data_with_openai(env[f])))
    /\ UNCHANGED << plan, mode, pc, chunk_lo, batch, submitted, snap, yielded,
                    results, all_results, ocr_calls, llm_calls, hist >>
    /\ InputsUnchanged

\* result = processor.process_single_pdf(...); results = [result] if result else []
SingleReturn ==
    /\ pc = "single" /\ st[1] = "done"
    /\ Return(IF fut[1].ok THEN <<fut[1]>> ELSE <<>>)
    /\ UNCHANGED << plan, mode, chunk_lo, batch, submitted, st, fut, finished,
                    snap, yielded, results, all_results, ocr_calls, llm_calls >>
    /\ InputsUnchanged

---------------------------------------------------------------------------
(* Runs of the orchestrator *)

\* the orchestrator before its first call
InitOrchUpTo(most, plans, outcomes) ==
    /\ plan \in plans
    /\ nfiles \in 0..most
    /\ env \in [1..nfiles -> outcomes]
    /\ mode = ""
    /\ pc = "idle"
    /\ chunk_lo = 0
    /\ batch = <<>>
    /\ submitted = 0
    /\ st = [f \in 1..nfiles |-> "idle"]
    /\ fut = [f \in 1..nfiles |-> NoResult]
    /\ finished = <<>>
    /\ snap = {}
    /\ yielded = {}
    /\ results = <<>>
    /\ all_results = <<>>
    /\ ocr_calls = [f \in 1..nfiles |-> 0]
    /\ llm_calls = [f \in 1..nfiles |-> 0]
    /\ hist = <<>>

\* the orchestrator before its first call, on at most MaxFiles files
InitOrch(plans, outcomes) == InitOrchUpTo(MaxFiles, plans, outcomes)

\* an environment variable: unset, empty, or holding a key
Unset == [set |-> FALSE, v |-> ""]

EnvVar(value) == [set |-> TRUE, v |-> value]

\* the processor is used without the application: it has been constructed
\* with both keys set
AppOff ==
    /\ api_keys = [OPENAI_API_KEY |-> EnvVar("key"),
                   LLMWHISPERER_API_KEY |-> EnvVar("key")]
    /\ apc = "off"
    /\ clients_initialized = 1
    /\ raised = ""
    /\ ui = {}

\* create_excel_file is not called
ExcelOff ==
    /\ processed_data = <<>>
    /\ writable = TRUE
    /\ xpc = "off"
    /\ sheets = <<>>
    /\ exc = ""
    /\ disk = NoFile
    /\ ret = "none"

\* a run of the orchestrator before its first call
InitRun(plans, outcomes) == InitOrch(plans, outcomes) /\ ExcelOff /\ AppOff

ChunkChoices == { Absent, Some(1), Some(2) }

\* one call of one mode: a single file with every outcome, or a batch in
\* parallel or chunked mode on a pool of two threads
Init ==
    \/ /\ InitRun({ <<"single">> }, SingleOutcomes)
       /\ nfiles = 1
       /\ llmwhisperer_client \in BOOLEAN
       /\ ctor_max_workers = Absent
       /\ config = [max_workers |-> Absent, chunk_size |-> Absent]
    \/ /\ InitRun({ <<"parallel">> }, BatchOutcomes)
       /\ llmwhisperer_client = TRUE
       /\ ctor_max_workers = Absent
       /\ config = [max_workers |-> Some(2), chunk_size |-> Absent]
    \/ /\ InitRun({ <<"chunked">> }, BatchOutcomes)
       /\ llmwhisperer_client = TRUE
       /\ ctor_max_workers = Absent
       /\ config \in { [max_workers |-> Some(2), chunk_size |-> c] :
                         c \in ChunkChoices }

\* process_multiple_pdfs
PoolStep ==
    \/ PoolNew
    \/ SubmitTask
    \/ AsCompleted
    \/ \E f \in Files : Collect(f)
    \/ PoolExit

\* process_single_pdf, in a worker thread or in the caller
PipelineStep ==
    \/ \E f \in Files : StartTask(f)
    \/ \E f \in Files : OcrReturn(f)
    \/ \E f \in Files : LlmReturn(f)

\* process_multiple_pdfs_in_chunks
ChunkStep ==
    \/ CallChunked
    \/ ChunkInit
    \/ ChunkNext

Next ==
    \/ CallSingle
    \/ SingleReturn
    \/ CallParallel
    \/ ChunkStep
    \/ PoolStep
    \/ PipelineStep

vars == << orch_vars, excel_vars, app_vars >>

Spec == Init /\ [][Next]_vars

---------------------------------------------------------------------------
(* Runs of process_multiple_pdfs over the ways the pool size is configured *)

CtorChoices == { Absent, Some(0), Some(1), Some(2) }

WorkerChoices == { Absent, Some(1), Some(2) }

\* the files of these runs succeed or fail at the OCR step
PoolOutcomes ==
    { Outcome("ok", "text", FALSE, <<"{", Quote("x"), ":", "1", "}">>),
      Outcome("ok", "vendor_error", FALSE, <<>>) }

InitPool ==
    /\ InitRun({ <<"parallel">> }, PoolOutcomes)
    /\ llmwhisperer_client = TRUE
    /\ ctor_max_workers \in CtorChoices
    /\ config \in { [max_workers |-> w, chunk_size |-> Absent] :
                      w \in WorkerChoices }

NextPool ==
    \/ CallParallel
    \/ PoolStep
    \/ PipelineStep

SpecPool == InitPool /\ [][NextPool]_vars

---------------------------------------------------------------------------
(* Both batch modes in turn on the same files with the same outcomes *)

\* the files of these runs succeed, fail at the OCR step, or get an empty
\* JSON object from the chat
BothOutcomes ==
    PoolOutcomes \cup { Outcome("ok", "text", FALSE, <<"{", "}">>) }

InitBoth ==
    /\ InitRun({ <<"parallel", "chunked">> }, BothOutcomes)
    /\ llmwhisperer_client = TRUE
    /\ ctor_max_workers = Absent
    /\ config \in { [max_workers |-> Some(2), chunk_size |-> c] :
                      c \in ChunkChoices }

NextBoth ==
    \/ CallParallel
    \/ ChunkStep
    \/ PoolStep
    \/ PipelineStep

SpecBoth == InitBoth /\ [][NextBoth]_vars

---------------------------------------------------------------------------
(* One batch call under fair scheduling *)

\* one batch call, parallel or chunked, on files that succeed or fail at
\* the OCR step
InitLive ==
    /\ InitRun({ <<"parallel">>, <<"chunked">> }, PoolOutcomes)
    /\ llmwhisperer_client = TRUE
    /\ ctor_max_workers = Absent
    /\ config \in { [max_workers |-> Some(2), chunk_size |-> c] :
                      c \in { Absent, Some(2) } }

\* the runs in which the calling thread and the pool's threads keep
\* running and every OCR call and every chat call returns or raises
SpecLive == InitLive /\ [][NextBoth]_vars /\ WF_vars(NextBoth)

---------------------------------------------------------------------------
(* create_excel_file *)

\* with pd.ExcelWriter(output_path, engine='openpyxl') as writer: the file
\* is opened for writing; when that fails the except branch is next
OpenWriter ==
    /\ xpc = "start"
    /\ IF writable
       THEN /\ disk' = Truncated
            /\ xpc' = "summary"
            /\ UNCHANGED exc
       ELSE /\ exc' = "OSError"
            /\ xpc' = "closed"
            /\ UNCHANGED disk
    /\ sheets' = <<>>
    /\ UNCHANGED << processed_data, writable, ret >>
    /\ UNCHANGED << orch_vars, app_vars >>

\* one of the three blocks: build the rows, and write the sheet if there
\* are rows; an exception leaves the with block
WriteSheet(name, columns, data, next) ==
    /\ IF data.raised
       THEN /\ exc' = "AttributeError"
            /\ xpc' = "exit"
            /\ UNCHANGED sheets
       ELSE IF data.rows = <<>>
       THEN /\ xpc' = next
            /\ UNCHANGED << sheets, exc >>
       ELSE IF ToExcelRaises(data.rows)
       THEN /\ sheets' = Append(sheets, Sheet(name, columns, <<>>, FALSE))
            /\ exc' = "ValueError"
            /\ xpc' = "exit"
       ELSE /\ sheets' = Append(sheets, Sheet(name, columns, data.rows, TRUE))
            /\ xpc' = next
            /\ UNCHANGED exc
    /\ UNCHANGED << processed_data, writable, disk, ret >>
    /\ UNCHANGED << orch_vars, app_vars >>

\* as WriteSheet, without the test "if summary_data"
WriteSheet_Unconditional(name, columns, data, next) ==
    /\ IF data.raised
       THEN /\ exc' = "AttributeError"
            /\ xpc' = "exit"
            /\ UNCHANGED sheets
       ELSE IF ToExcelRaises(data.rows)
       THEN /\ sheets' = Append(sheets, Sheet(name, columns, <<>>, FALSE))
            /\ exc' = "ValueError"
            /\ xpc' = "exit"
       ELSE /\ sheets' = Append(sheets, Sheet(name, columns, data.rows, TRUE))
            /\ xpc' = next
            /\ UNCHANGED exc
    /\ UNCHANGED << processed_data, writable, disk, ret >>
    /\ UNCHANGED << orch_vars, app_vars >>

\* as SummarySheet, without the test "if summary_data"
SummarySheet_Unconditional ==
    /\ xpc = "summary"
    /\ WriteSheet_Unconditional("Resumen", SummaryColumns,
                                SummaryData(processed_data), "detail")

\* the sheet Resumen
SummarySheet ==
    /\ xpc = "summary"
    /\ WriteSheet("Resumen", SummaryColumns, SummaryData(processed_data),
                  "detail")

\* the sheet Detalle_Completo
DetailSheet ==
    /\ xpc = "detail"
    /\ WriteSheet("Detalle_Completo", DetailColumns,
                  DetailData(processed_data), "concepts")

\* the sheet Conceptos
ConceptsSheet ==
    /\ xpc = "concepts"
    /\ WriteSheet("Conceptos", ConceptColumns, ConceptsData(processed_data),
                  "exit")

\* the with block is left, normally or by an exception: the writer is
\* closed, which saves the workbook with the sheets written so far; a
\* workbook without a sheet cannot be saved (IndexError)
CloseWriter ==
    /\ xpc = "exit"
    /\ IF sheets = <<>>
       THEN /\ exc' = IF exc = "" THEN "IndexError" ELSE exc
            /\ UNCHANGED disk
       ELSE /\ disk' = Workbook(sheets)
            /\ UNCHANGED exc
    /\ xpc' = "closed"
    /\ UNCHANGED << processed_data, writable, sheets, ret >>
    /\ UNCHANGED << orch_vars, app_vars >>

\* return True, or return False from "except Exception"
ReturnFlag ==
    /\ xpc = "closed"
    /\ ret' = IF exc = "" THEN "True" ELSE "False"
    /\ xpc' = "returned"
    /\ UNCHANGED << processed_data, writable, sheets, exc, disk >>
    /\ UNCHANGED << orch_vars, app_vars >>

---------------------------------------------------------------------------
(* Runs of create_excel_file *)

\* the extracted data of the results handed to the writer, as JSON texts
ExcelTexts ==
    { <<"{", Quote("raw_text"), ":", Quote("x"), "}">>,
      <<"{", Quote("datos_factura"), ":", "{", Quote("numero_factura"), ":",
        Quote("F1"), ",", Quote("fecha_emision"), ":", Quote("x"), "}", ",",
        Quote("totales"), ":", "{", Quote("gran_total"), ":", "1", "}", "}">>,
      <<"{", Quote("datos_factura"), ":", "{", "}", ",",
        Quote("resumen_tabular"), ":", "{", Quote("numero_factura"), ":",
        Quote("F1"), "}", "}">>,
      <<"{", Quote("resumen_tabular"), ":", "{", Quote("gran_total"), ":", "2",
        "}", ",", Quote("conceptos_facturacion"), ":", "[", "{",
        Quote("concepto"), ":", Quote("x"), ",", Quote("importe"), ":", "1",
        "}", ",", "{", "}", "]", "}">>,
      <<"{", Quote("totales"), ":", "{", Quote("gran_total"), ":", "0", "}",
        "}">>,
      <<"[", "1", "]">>,
      <<"{", Quote("conceptos_facturacion"), ":", "null", "}">>,
      <<"{", Quote("datos_factura"), ":", "null", "}">>,
      <<"{", Quote("datos_factura"), ":", "{", Quote("numero_factura"), ":",
        Quote("F1"), "}", ",", Quote("totales"), ":", "{", Quote("gran_total"),
        ":", "1", "}", ",", Quote("resumen_tabular"), ":", Quote("x"), "}">>,
      <<"{", Quote("datos_factura"), ":", "{", Quote("fecha_emision"), ":",
        "[", "1", "]", "}", "}">>,
      <<"{", Quote("conceptos_facturacion"), ":", "[", "1", "]", "}">> }

ExcelData == { JsonLoads(t).val : t \in ExcelTexts }

\* the lists of at most MaxResults results, the i-th from file i
ResultLists ==
    UNION { { [i \in 1..n |-> Result(i, PyStr(OcrText), d[i])] :
                d \in [1..n -> ExcelData] } : n \in 0..MaxResults }

\* create_excel_file(processed_data, output_path) is called; no file is
\* at output_path
InitExcel ==
    /\ InitOrch({ <<>> }, {})
    /\ nfiles = 0
    /\ llmwhisperer_client = TRUE
    /\ ctor_max_workers = Absent
    /\ config = [max_workers |-> Absent, chunk_size |-> Absent]
    /\ processed_data \in ResultLists
    /\ writable \in BOOLEAN
    /\ xpc = "start"
    /\ sheets = <<>>
    /\ exc = ""
    /\ disk = NoFile
    /\ ret = "none"
    /\ AppOff

NextExcel ==
    \/ OpenWriter
    \/ SummarySheet
    \/ DetailSheet
    \/ ConceptsSheet
    \/ CloseWriter
    \/ ReturnFlag

SpecExcel == InitExcel /\ [][NextExcel]_vars

---------------------------------------------------------------------------
(* The application: main of app.py, and the construction of PDFProcessor *)

\* bool(os.getenv(name))
KeySet(var) == var.set /\ var.v # ""

\* validate_api_keys(): which keys are configured
validate_api_keys(keys) ==
    [openai_api_key |-> KeySet(keys.OPENAI_API_KEY),
     llmwhisperer_api_key |-> KeySet(keys.LLMWHISPERER_API_KEY)]

\* what a construction does: the exception it raises, or "", and whether
\* it went on to build the clients
Constructed(error, clients) == [error |-> error, clients |-> clients]

\* as _initialize_clients, without the validation of the keys
_initialize_clients_Unchecked(keys, clients_fail) ==
    Constructed(IF clients_fail THEN "Exception" ELSE "", 1)

\* PDFProcessor._initialize_clients: ValueError for a missing key, before
\* the clients are built; an exception of the clients is raised again
_initialize_clients(keys, clients_fail) ==
    LET api_status == validate_api_keys(keys) IN
    IF ~api_status.openai_api_key THEN Constructed("ValueError", 0)
    ELSE IF ~api_status.llmwhisperer_api_key THEN Constructed("ValueError", 0)
    ELSE Constructed(IF clients_fail THEN "Exception" ELSE "", 1)

\* what can go wrong in a construction besides the keys: the configuration
\* file cannot be loaded, or a client cannot be built
Worlds == { "ok", "no_config", "clients_fail" }

\* PDFProcessor(): _load_config, then _initialize_clients
PDFProcessor_init(keys, world) ==
    IF world = "no_config" THEN Constructed("OSError", 0)
    ELSE _initialize_clients(keys, world = "clients_fail")

\* the effect of a construction on the record of constructions
Construct(r) ==
    /\ clients_initialized' = clients_initialized + r.clients
    /\ raised' = r.error

\* as ModeFor, with parallel mode for fewer than 5 files only
ModeFor_Below5(total_files) ==
    IF total_files = 1 THEN "single"
    ELSE IF total_files < 5 THEN "parallel"
    ELSE "chunked"

\* the mode main picks for total_files saved files
ModeFor(total_files) ==
    IF total_files = 1 THEN "single"
    ELSE IF total_files <= 5 THEN "parallel"
    ELSE "chunked"

\* main shows a message or a widget
Show(items) == ui' = ui \cup items

\* the sidebar: without both keys an error is shown and main returns
Sidebar ==
    /\ apc = "sidebar"
    /\ LET api_status == validate_api_keys(api_keys) IN
       IF api_status.openai_api_key /\ api_status.llmwhisperer_api_key
       THEN Show({"keys_ok"}) /\ apc' = "status"
       ELSE Show({"keys_error"}) /\ apc' = "stopped"
    /\ UNCHANGED << api_keys, clients_initialized, raised >>
    /\ UNCHANGED << orch_vars, excel_vars >>

\* the status column: a processor is constructed; when that fails an error
\* is shown and main returns
SystemStatus ==
    /\ apc = "status"
    /\ \E world \in Worlds :
           LET r == PDFProcessor_init(api_keys, world) IN
           /\ Construct(r)
           /\ IF r.error = ""
              THEN Show({"status"}) /\ apc' = "button"
              ELSE Show({"init_error"}) /\ apc' = "stopped"
    /\ UNCHANGED api_keys
    /\ UNCHANGED << orch_vars, excel_vars >>

\* the button: with files uploaded and the button pressed the files are
\* saved; otherwise main is over
ProcessButton ==
    /\ apc = "button"
    /\ \E pressed \in BOOLEAN :
           apc' = IF nfiles >= 1 /\ pressed THEN "saved" ELSE "stopped"
    /\ UNCHANGED << api_keys, clients_initialized, raised, ui >>
    /\ UNCHANGED << orch_vars, excel_vars >>

\* processor = PDFProcessor() of the processing block: an exception is
\* shown by the handler of the block
NewProcessor ==
    /\ apc = "saved"
    /\ \E world \in Worlds :
           LET r == PDFProcessor_init(api_keys, world) IN
           /\ Construct(r)
           /\ IF r.error = ""
              THEN apc' = "select" /\ UNCHANGED ui
              ELSE Show({"processing_error"}) /\ apc' = "stopped"
    /\ UNCHANGED api_keys
    /\ UNCHANGED << orch_vars, excel_vars >>

\* the mode is picked from total_files and its method is called
SelectMode ==
    /\ apc = "select"
    /\ plan' = << ModeFor(nfiles) >>
    /\ apc' = "processing"
    /\ UNCHANGED << api_keys, clients_initialized, raised, ui >>
    /\ UNCHANGED << ctor_max_workers, config, llmwhisperer_client, nfiles, env,
                    mode, pc, chunk_lo, batch, submitted, st, fut, finished,
                    snap, yielded, results, all_results, ocr_calls, llm_calls,
                    hist >>
    /\ UNCHANGED excel_vars

\* as AfterProcessing, without the test "if results"
AfterProcessing_NoTest ==
    /\ apc = "processing"
    /\ pc = "idle" /\ plan = <<>> /\ hist # <<>>
    /\ LET call == hist[Len(hist)] IN
       IF call.status = "raised"
       THEN /\ Show({"processing_error"}) /\ apc' = "stopped"
            /\ UNCHANGED << processed_data, xpc >>
       ELSE /\ processed_data' = call.value
            /\ xpc' = "start"
            /\ apc' = "excel"
            /\ UNCHANGED ui
    /\ UNCHANGED << api_keys, clients_initialized, raised >>
    /\ UNCHANGED << writable, sheets, exc, disk, ret >>
    /\ UNCHANGED orch_vars

\* the mode's method is over: its exception is shown; a list with results
\* goes to create_excel_file; for an empty list an error is shown
AfterProcessing ==
    /\ apc = "processing"
    /\ pc = "idle" /\ plan = <<>> /\ hist # <<>>
    /\ LET call == hist[Len(hist)] IN
       IF call.status = "raised"
       THEN /\ Show({"processing_error"}) /\ apc' = "stopped"
            /\ UNCHANGED << processed_data, xpc >>
       ELSE IF call.value # <<>>
       THEN /\ processed_data' = call.value
            /\ xpc' = "start"
            /\ apc' = "excel"
            /\ UNCHANGED ui
       ELSE /\ Show({"no_results_error"}) /\ apc' = "stopped"
            /\ UNCHANGED << processed_data, xpc >>
    /\ UNCHANGED << api_keys, clients_initialized, raised >>
    /\ UNCHANGED << writable, sheets, exc, disk, ret >>
    /\ UNCHANGED orch_vars

\* create_excel_file is over: on True the success message, the list of
\* files and the download of the workbook, on False an error
AfterExcel ==
    /\ apc = "excel" /\ xpc = "returned"
    /\ IF ret = "True"
       THEN Show({"success", "download"})
       ELSE Show({"excel_error"})
    /\ apc' = "stopped"
    /\ UNCHANGED << api_keys, clients_initialized, raised >>
    /\ UNCHANGED << orch_vars, excel_vars >>

\* PDFProcessor() constructed by any other caller
ConstructOnly ==
    /\ apc = "construct"
    /\ \E world \in Worlds : Construct(PDFProcessor_init(api_keys, world))
    /\ apc' = "constructed"
    /\ UNCHANGED << api_keys, ui >>
    /\ UNCHANGED << orch_vars, excel_vars >>

\* the values of an environment variable
KeyValues == { Unset, EnvVar(""), EnvVar("key") }

\* a file of the application that succeeds
AppSuccess == Outcome("ok", "text", FALSE, <<"{", Quote("x"), ":", "1", "}">>)

\* a file that fails at the OCR step
AppOcrFailure == Outcome("ok", "vendor_error", FALSE, <<>>)

\* a file whose result the spreadsheet writer fails on
AppBadResult ==
    Outcome("ok", "text", FALSE,
            <<"{", Quote("conceptos_facturacion"), ":", "null", "}">>)

AppOutcomes == { AppSuccess, AppOcrFailure, AppBadResult }

\* a run of main on the uploaded files, or a construction of PDFProcessor
\* alone, over every setting of the two keys; the pool has one thread; the
\* files succeed or fail at the OCR step, or all succeed and the writer
\* fails on the first one's result
InitApp ==
    /\ InitOrchUpTo(MaxUploads, { <<>> }, AppOutcomes)
    /\ \/ \A f \in 1..nfiles : env[f] # AppBadResult
       \/ /\ nfiles >= 1 /\ env[1] = AppBadResult
          /\ \A f \in 2..nfiles : env[f] = AppSuccess
    /\ ExcelOff
    /\ llmwhisperer_client = TRUE
    /\ ctor_max_workers = Absent
    /\ config = [max_workers |-> Some(1), chunk_size |-> Absent]
    /\ api_keys \in [OPENAI_API_KEY : KeyValues, LLMWHISPERER_API_KEY : KeyValues]
    /\ apc \in {"sidebar", "construct"}
    /\ apc = "construct" => nfiles = 0
    /\ clients_initialized = 0
    /\ raised = ""
    /\ ui = {}

\* main
MainStep ==
    \/ Sidebar
    \/ SystemStatus
    \/ ProcessButton
    \/ NewProcessor
    \/ SelectMode
    \/ AfterProcessing
    \/ AfterExcel

NextApp ==
    \/ MainStep
    \/ ConstructOnly
    \/ CallSingle
    \/ SingleReturn
    \/ CallParallel
    \/ ChunkStep
    \/ PoolStep
    \/ PipelineStep
    \/ NextExcel

SpecApp == InitApp /\ [][NextApp]_vars

---------------------------------------------------------------------------
(* What the properties speak of *)

\* the OCR step gives file f a text: the client exists, the path is an
\* existing .pdf and the service answers with a non-empty result_text
OcrGivesText(f) ==
    llmwhisperer_client /\ env[f].path = "ok" /\ env[f].ocr = "text"

ValidJson == TruthyJson \cup FalsyJson

\* the chat answers file f, with a text
LlmAnswers(f) == OcrGivesText(f) /\ ~env[f].llm_raises

\* the extraction step gives file f no data: the chat raises, or answers
\* with JSON whose value is empty
ExtractionEmpty(f) ==
    OcrGivesText(f) /\ (env[f].llm_raises \/ env[f].resp \in FalsyJson)

\* file f's own OCR and extraction succeed
Succeeds(f) == OcrGivesText(f) /\ ~ExtractionEmpty(f)

\* the files of a returned list
Names(value) == { value[i].file_name : i \in 1..Len(value) }

\* the calls of process_multiple_pdfs that have ended
ParallelEnded == { i \in 1..Len(hist) : hist[i].mode = "parallel" }

OcrFailures == Cardinality({ f \in Files : ~OcrGivesText(f) })

ExtractionFailures == Cardinality({ f \in Files : ExtractionEmpty(f) })

---------------------------------------------------------------------------
(* C1 *)

\* C1, as stated: process_multiple_pdfs on N files of which k fail the OCR
\* step returns a list of exactly N - k entries, whatever the chat returns.
C1_Original ==
    \A i \in ParallelEnded :
        hist[i].status = "returned" =>
            Len(hist[i].value) = nfiles - OcrFailures

\* C1, amended: the list process_multiple_pdfs returns has exactly
\* N - k - m entries, m the files whose OCR gave text and whose extraction
\* raised or gave an empty value; a response that is no JSON counts as data.
C1_Amended ==
    \A i \in ParallelEnded :
        hist[i].status = "returned" =>
            Len(hist[i].value) = nfiles - OcrFailures - ExtractionFailures

C1_Witness ==
    \E i \in ParallelEnded :
        /\ hist[i].status = "returned"
        /\ OcrFailures = 1
        /\ ExtractionFailures = 1
        /\ Len(hist[i].value) = 1

---------------------------------------------------------------------------
(* C2 *)

\* C2: with the outcomes fixed, process_multiple_pdfs_in_chunks and
\* process_multiple_pdfs on the same list both return or both fail, and
\* return the same set of files.
C2_SameOutcome ==
    Len(hist) = 2 =>
        /\ hist[1].status = hist[2].status
        /\ Names(hist[1].value) = Names(hist[2].value)

---------------------------------------------------------------------------
(* C3 *)

\* C3, as stated: when the chat's response is valid JSON of any value, the
\* file's result carries the parsed value as extracted_data.
C3_Original ==
    \A f \in Files :
        (st[f] = "done" /\ LlmAnswers(f) /\ env[f].resp \in ValidJson) =>
            /\ fut[f].ok
            /\ fut[f].extracted_data = JsonLoads(env[f].resp).val

\* C3, amended: when the response is valid JSON with a truthy value (a
\* non-empty object, array or string, a non-zero number, true), the result
\* carries the parsed value as extracted_data; when its value is falsy ({},
\* [], null, false, 0, "") process_single_pdf returns None.
C3_Amended ==
    \A f \in Files :
        (st[f] = "done" /\ LlmAnswers(f)) =>
            /\ env[f].resp \in TruthyJson =>
                   /\ fut[f].ok
                   /\ fut[f].file_name = f
                   /\ fut[f].extracted_data = JsonLoads(env[f].resp).val
            /\ env[f].resp \in FalsyJson => ~fut[f].ok

\* the response { "x": null, "x": [] } between blanks has been parsed
C3_Witness ==
    /\ nfiles = 1 /\ st[1] = "done" /\ LlmAnswers(1)
    /\ env[1].resp \in TruthyJson
    /\ fut[1].ok
    /\ fut[1].extracted_data = PyDict(<<Pair("x", PyList(<<>>))>>)

---------------------------------------------------------------------------
(* C4 *)

\* C4: when the chat's response is not valid JSON, the file still gets a
\* result, whose extracted_data has the one key raw_text, mapped to the
\* response text as it came.
C4_RawTextFallback ==
    \A f \in Files :
        (st[f] = "done" /\ LlmAnswers(f) /\ env[f].resp \in NotJson) =>
            /\ fut[f].ok
            /\ fut[f].extracted_data =
                   PyDict(<<Pair("raw_text", PyStr(Join(env[f].resp)))>>)

C4_Witness ==
    /\ nfiles = 1 /\ st[1] = "done" /\ LlmAnswers(1)
    /\ env[1].resp = <<"[", "1", ",", "]">>
    /\ fut[1].extracted_data = PyDict(<<Pair("raw_text", PyStr("[1,]"))>>)

---------------------------------------------------------------------------
(* C5 *)

\* C5: in parallel mode a file that fails is dropped alone: the call
\* returns, and every file whose own OCR and extraction succeed is in the
\* returned list.
C5_FailureDropsOnlyThatFile ==
    \A i \in ParallelEnded :
        (\E f \in Files : ~Succeeds(f)) =>
            /\ hist[i].status = "returned"
            /\ \A g \in Files : Succeeds(g) => g \in Names(hist[i].value)
            /\ \A g \in Files : ~Succeeds(g) => g \notin Names(hist[i].value)

C5_Witness ==
    \E i \in ParallelEnded :
        /\ nfiles = 3
        /\ ~OcrGivesText(1) /\ env[2].llm_raises /\ Succeeds(3)
        /\ hist[i].status = "returned"
        /\ Names(hist[i].value) = {3}

---------------------------------------------------------------------------
(* C6 *)

\* C6: a write that meets an exception at any point is all or nothing:
\* create_excel_file returns False (it raises nothing), and no workbook
\* with only part of the sheets is left at output_path.
C6_AllOrNothing ==
    (xpc = "returned" /\ exc # "") =>
        /\ ret = "False"
        /\ disk.kind # "workbook"

---------------------------------------------------------------------------
(* C7 *)

\* C7: no external call is retried: in every mode the OCR service and the
\* chat are each called at most once for a file, and exactly once for a
\* finished file whose pipeline reached the call, also after a failure or
\* a timeout.
C7_NoRetry ==
    \A f \in Files :
        /\ ocr_calls[f] <= 1
        /\ llm_calls[f] <= 1
        /\ st[f] = "done" =>
              /\ ocr_calls[f] =
                     IF llmwhisperer_client /\ env[f].path = "ok" THEN 1 ELSE 0
              /\ llm_calls[f] = IF OcrGivesText(f) THEN 1 ELSE 0

C7_Witness ==
    \E f \in Files :
        /\ st[f] = "done"
        /\ env[f].ocr \in {"timeout", "vendor_error"}
        /\ ocr_calls[f] = 1 /\ llm_calls[f] = 0
        /\ mode = "chunked"

---------------------------------------------------------------------------
(* C8 *)

\* C8: given an empty list of results, create_excel_file returns False and
\* leaves no workbook; it never returns True for a workbook without sheets.
C8_NoEmptyWorkbook ==
    xpc = "returned" =>
        /\ processed_data = <<>> =>
               (ret = "False" /\ disk.kind # "workbook")
        /\ ret = "True" =>
               (disk.kind = "workbook" /\ disk.sheets # <<>>)

\* the empty list got as far as saving a workbook without sheets
C8_Witness ==
    /\ xpc = "returned" /\ writable
    /\ processed_data = <<>>
    /\ exc = "IndexError"
    /\ ret = "False"
    /\ disk = Truncated

---------------------------------------------------------------------------
(* C9 *)

\* extracted data d has key k
Has(d, k) == IsDict(d) /\ HasKey(d, k)

\* the result's extracted data has none of the keys datos_factura,
\* totales, resumen_tabular
LacksNestedKeys(r) ==
    /\ ~Has(r.extracted_data, "datos_factura")
    /\ ~Has(r.extracted_data, "totales")
    /\ ~Has(r.extracted_data, "resumen_tabular")

\* field k is in neither of the two places the summary row looks it up in
FieldAbsent(r, first, k) ==
    /\ ~(Has(r.extracted_data, first)
            /\ Has(DictGet(r.extracted_data, first, EmptyDict), k))
    /\ ~(Has(r.extracted_data, "resumen_tabular")
            /\ Has(ResumenTabular(r), k))

\* the date is looked up in datos_factura alone
DateAbsent(r) ==
    ~(Has(r.extracted_data, "datos_factura")
         /\ Has(DictGet(r.extracted_data, "datos_factura", EmptyDict),
                "fecha_emision"))

\* the rows of the sheet Resumen in the file at output_path
SavedSummary ==
    IF disk.kind = "workbook" /\ disk.sheets[1].name = "Resumen"
           /\ disk.sheets[1].complete
    THEN disk.sheets[1].rows
    ELSE <<>>

Scalar(v) == v.kind \notin {"arr", "obj"}

\* a dict of scalars
FlatDict(v) ==
    IsDict(v) /\ \A i \in 1..Len(v.items) : Scalar(v.items[i].items[1])

\* every key the writer reads that the extracted data has holds what the
\* writer expects: dicts of scalars, and a list of dicts of scalars
WellShaped(r) ==
    LET d == r.extracted_data IN
    /\ \A k \in {"datos_factura", "totales", "resumen_tabular"} :
           Has(d, k) => FlatDict(DictGet(d, k, EmptyDict))
    /\ Has(d, "conceptos_facturacion") =>
           /\ Conceptos(r).kind = "arr"
           /\ \A i \in 1..Len(Conceptos(r).items) :
                  FlatDict(Conceptos(r).items[i])

---------------------------------------------------------------------------
(* C10 *)

\* C10, as stated: the pipelines executing at the same time are at most
\* the pool size: the constructor's max_workers when given, otherwise the
\* configured parallel_processing.max_workers, otherwise 3.
C10_Original ==
    Cardinality(Running) <=
        IF ctor_max_workers.has THEN ctor_max_workers.v
        ELSE IF config.max_workers.has THEN config.max_workers.v
        ELSE 3

\* C10, amended: the pipelines executing at the same time are at most the
\* pool size: the constructor's max_workers when given and not 0,
\* otherwise the configured parallel_processing.max_workers, otherwise 3.
C10_Amended ==
    Cardinality(Running) <=
        IF ctor_max_workers.has /\ ctor_max_workers.v # 0
        THEN ctor_max_workers.v
        ELSE IF config.max_workers.has THEN config.max_workers.v
        ELSE 3

\* the pool is full and a submitted file waits
C10_Witness ==
    /\ ctor_max_workers = Some(0)
    /\ config.max_workers = Some(2)
    /\ Cardinality(Running) = 2
    /\ \E f \in Files : st[f] = "queued"

---------------------------------------------------------------------------
(* C11 *)

\* the group of process_multiple_pdfs_in_chunks that file f falls in
GroupOf(f) == (f - 1) \div chunk_size

\* the pipelines in flight: submitted to a pool and not yet returned
InFlight == { f \in Files : st[f] \in {"queued", "ocr", "llm"} }

\* C11: process_multiple_pdfs_in_chunks runs the groups one after another:
\* no file of a later group has been submitted or started while a file of
\* an earlier group is unfinished, and at most chunk_size pipelines are in
\* flight.
C11_GroupsInSequence ==
    (mode = "chunked" /\ chunk_size >= 1) =>
        /\ \A f, g \in Files :
               (GroupOf(f) < GroupOf(g) /\ st[g] # "idle") => st[f] = "done"
        /\ Cardinality(InFlight) <= chunk_size

\* the second group of two has a pipeline executing
C11_Witness ==
    /\ mode = "chunked" /\ chunk_size = 1 /\ nfiles >= 2
    /\ st[1] = "done" /\ st[2] = "ocr"

---------------------------------------------------------------------------
(* C12 *)

\* the call that ended last
LastCall == hist[Len(hist)]

\* a call of the given mode has just returned its list
JustReturned(m) ==
    /\ pc = "idle" /\ hist # <<>>
    /\ LastCall.mode = m /\ LastCall.status = "returned"

\* the files of a returned list, in list order
FileSeq(value) == [i \in 1..Len(value) |-> value[i].file_name]

\* where x stands in seq
Pos(seq, x) == CHOOSE i \in 1..Len(seq) : seq[i] = x

\* the files whose pipelines succeeded, in the order they completed
SucceededInCompletionOrder == SelectSeq(finished, LAMBDA f : Succeeds(f))

\* a chunked call's list holds the files that succeeded, each once, those
\* of an earlier group before those of a later group
GroupsInOrder(value) ==
    /\ Names(value) = { f \in Files : Succeeds(f) }
    /\ Len(value) = Cardinality(Names(value))
    /\ \A i, j \in 1..Len(value) :
           i < j => GroupOf(value[i].file_name) <= GroupOf(value[j].file_name)

\* C12, as stated: the list process_multiple_pdfs returns holds the files
\* that succeeded in the order their pipelines completed; in chunked mode
\* the results of an earlier group precede those of a later group.
C12_Original ==
    /\ JustReturned("parallel") =>
           FileSeq(LastCall.value) = SucceededInCompletionOrder
    /\ JustReturned("chunked") => GroupsInOrder(LastCall.value)

\* C12, amended: the list process_multiple_pdfs returns holds the files
\* that succeeded, each once; two files stand in the order their pipelines
\* completed unless both had completed before the collection of results
\* began, and those stand in either order; in chunked mode the results of
\* an earlier group precede those of a later group.
C12_Amended ==
    /\ JustReturned("parallel") =>
           LET value == LastCall.value IN
           /\ Names(value) = { f \in Files : Succeeds(f) }
           /\ Len(value) = Cardinality(Names(value))
           /\ \A i, j \in 1..Len(value) :
                  i < j =>
                      \/ Pos(finished, value[i].file_name)
                             < Pos(finished, value[j].file_name)
                      \/ {value[i].file_name, value[j].file_name} \subseteq snap
    /\ JustReturned("chunked") => GroupsInOrder(LastCall.value)

\* two files completed before the collection began, and the list returned
\* holds them against the order they completed in
C12_Witness ==
    /\ JustReturned("parallel")
    /\ Len(LastCall.value) >= 2
    /\ \E i, j \in 1..Len(LastCall.value) :
           /\ i < j
           /\ Pos(finished, LastCall.value[j].file_name)
                  < Pos(finished, LastCall.value[i].file_name)

---------------------------------------------------------------------------
(* C13 *)

\* a worker thread takes a step of some file's pipeline
WorkerStep ==
    \E f \in Files : st'[f] # st[f] /\ st'[f] \in {"ocr", "llm", "done"}

\* how often file f stands in a returned list
Occurrences(value, f) ==
    Cardinality({ i \in 1..Len(value) : value[i].file_name = f })

\* C13: under every interleaving only the calling thread changes the
\* results collections, never a worker's step, and the list returned holds
\* each pipeline that returned a result exactly once and no other file.
C13_NoRace ==
    /\ [][ /\ WorkerStep => UNCHANGED << results, all_results >>
           /\ results' # results => pc \in {"idle", "pool_new", "collect"} ]_vars
    /\ [](\A m \in {"parallel", "chunked"} :
              JustReturned(m) =>
                  \A f \in Files :
                      Occurrences(LastCall.value, f) = IF fut[f].ok THEN 1 ELSE 0)

\* results are being collected while a worker still runs a pipeline
C13_Witness ==
    /\ mode = "parallel" /\ pc = "collect"
    /\ results # <<>>
    /\ Running # {}

---------------------------------------------------------------------------
(* C14 *)

\* a batch call is under way
InBatchCall == mode \in {"parallel", "chunked"} /\ pc # "idle"

\* C14: provided every OCR call and every chat call returns or raises,
\* process_multiple_pdfs and process_multiple_pdfs_in_chunks eventually
\* return, and when they return every submitted file has completed.
C14_EventuallyReturns ==
    /\ InBatchCall ~> (\E m \in {"parallel", "chunked"} : JustReturned(m))
    /\ [](\A m \in {"parallel", "chunked"} : JustReturned(m) => InFlight = {})

\* C14 for lists of at least one file: a batch call ends, by a return, and
\* when it has ended every submitted file has completed
NonEmptyEventuallyReturns ==
    /\ (InBatchCall /\ nfiles >= 1)
           ~> (\E m \in {"parallel", "chunked"} : JustReturned(m))
    /\ [](\A m \in {"parallel", "chunked"} : JustReturned(m) => InFlight = {})

---------------------------------------------------------------------------
(* C15 *)

\* the OCR step of file f is over
OcrOver(f) == st[f] \in {"llm", "done"}

\* the conversion of file f fails: no client, no such file, no .pdf, an
\* exception or a timeout of the service, or an envelope without the text
ConversionFails(f) ==
    \/ ~llmwhisperer_client
    \/ env[f].path # "ok"
    \/ env[f].ocr \notin {"text", "empty_text"}

\* C15: convert_pdf_to_text never raises: every failure of the conversion
\* yields None, and for a missing file or a wrong extension the OCR service
\* is not called.
C15_NeverRaises ==
    \A f \in Files :
        /\ OcrOver(f) =>
               /\ ~convert_pdf_to_text_raises(llmwhisperer_client, env[f])
               /\ ConversionFails(f) =>
                      convert_pdf_to_text(llmwhisperer_client, env[f]) = None
        /\ env[f].path # "ok" => ocr_calls[f] = 0

\* C15 without the vendor exceptions that lack the attribute message
NeverRaisesOtherwise ==
    \A f \in Files :
        /\ (OcrOver(f) /\ env[f].ocr # "vendor_error_no_message") =>
               /\ ~convert_pdf_to_text_raises(llmwhisperer_client, env[f])
               /\ ConversionFails(f) =>
                      convert_pdf_to_text(llmwhisperer_client, env[f]) = None
        /\ env[f].path # "ok" => ocr_calls[f] = 0

---------------------------------------------------------------------------
(* C17 *)

\* C17: in a file's pipeline the chat is called only after the file's OCR
\* call has returned a non-empty text, a result exists only after the chat
\* call has returned, and a file whose OCR yields nothing never reaches the
\* chat.
C17_OcrThenExtraction ==
    \A f \in Files :
        /\ llm_calls[f] >= 1 =>
               /\ ocr_calls[f] = 1
               /\ OcrOver(f)
               /\ OcrGivesText(f)
        /\ fut[f].ok => (llm_calls[f] = 1 /\ st[f] = "done")
        /\ ~OcrGivesText(f) => llm_calls[f] = 0

\* the single pipeline has produced its result after one OCR call and one
\* chat call
C17_Witness ==
    /\ mode = "single" /\ st[1] = "done"
    /\ fut[1].ok
    /\ ocr_calls[1] = 1 /\ llm_calls[1] = 1

---------------------------------------------------------------------------
(* C18 *)

\* ceil(n / c)
CeilDiv(n, c) == (n + c - 1) \div c

\* process_multiple_pdfs is at work on a group
OnGroup == mode = "chunked" /\ pc \in {"pool_new", "submit", "collect"}

\* C18: for N files and a chunk size c >= 1 the groups partition the list
\* in order: the group being processed holds exactly the files of its
\* index, in list order, c of them unless it is the last, which holds
\* between 1 and c; and ceil(N/c) groups have been formed at the return.
C18_GroupsPartition ==
    (mode = "chunked" /\ chunk_size >= 1) =>
        /\ chunk_lo % chunk_size = 0
        /\ OnGroup =>
               LET g == chunk_lo \div chunk_size IN
               /\ g < CeilDiv(nfiles, chunk_size)
               /\ Range(batch) = { f \in Files : GroupOf(f) = g }
               /\ \A k \in 1..Len(batch) : batch[k] = chunk_lo + k
               /\ Len(batch) >= 1 /\ Len(batch) <= chunk_size
               /\ g < CeilDiv(nfiles, chunk_size) - 1 => Len(batch) = chunk_size
        /\ JustReturned("chunked") =>
               chunk_lo \div chunk_size = CeilDiv(nfiles, chunk_size)

\* the last of two groups holds the one file left over
C18_Witness ==
    /\ OnGroup /\ chunk_size = 2 /\ nfiles = 3
    /\ chunk_lo = 2 /\ batch = <<3>>

---------------------------------------------------------------------------
(* C16 *)

\* a key is unset or empty
KeysMissing ==
    \/ ~KeySet(api_keys.OPENAI_API_KEY)
    \/ ~KeySet(api_keys.LLMWHISPERER_API_KEY)

\* no file has been processed and no external call made
NothingProcessed ==
    /\ hist = <<>> /\ mode = "" /\ plan = <<>>
    /\ \A f \in Files : st[f] = "idle" /\ ocr_calls[f] = 0 /\ llm_calls[f] = 0
    /\ xpc = "off"

\* C16: with the OCR key or the chat key unset or empty, a construction of
\* PDFProcessor raises an error before any client is built, and main stops
\* before any file is processed or any external call is made.
C16_MissingKeysFatal ==
    KeysMissing =>
        /\ clients_initialized = 0
        /\ apc = "constructed" => raised # ""
        /\ apc \in {"sidebar", "stopped", "construct", "constructed"}
        /\ apc = "stopped" => ui = {"keys_error"}
        /\ NothingProcessed

\* PDFProcessor() has raised ValueError for an empty OCR key
C16_Witness ==
    /\ api_keys.OPENAI_API_KEY = EnvVar("key")
    /\ api_keys.LLMWHISPERER_API_KEY = EnvVar("")
    /\ apc = "constructed"
    /\ raised = "ValueError"
    /\ clients_initialized = 0

---------------------------------------------------------------------------
(* C19 *)

\* the methods main has called or is about to call
ModeCalls == Len(plan) + (IF mode = "" THEN 0 ELSE 1)

\* the method main has called is over
ProcessingOver == apc \in {"processing", "excel", "stopped"} /\ pc = "idle" /\ hist # <<>>

\* C19: main picks one mode from the number of saved files: the single
\* pipeline for 1 file, parallel mode for 2 to 5, chunked mode for more than
\* 5; it calls one method, once, and that method takes every saved file
\* through a pipeline exactly once.
C19_OneModeBySize ==
    /\ ModeCalls <= 1 /\ Len(hist) <= 1
    /\ apc \in {"processing", "excel"} => ModeCalls = 1
    /\ \A m \in Range(plan) \cup (IF mode = "" THEN {} ELSE {mode}) :
           /\ m = "single" <=> nfiles = 1
           /\ m = "parallel" <=> (nfiles >= 2 /\ nfiles <= 5)
           /\ m = "chunked" <=> nfiles > 5
    /\ \A f \in Files : ocr_calls[f] <= 1 /\ llm_calls[f] <= 1
    /\ (ProcessingOver /\ hist[1].status = "returned") =>
           /\ \A f \in Files : st[f] = "done" /\ ocr_calls[f] = 1
           /\ \A f \in Files : Occurrences(hist[1].value, f) <= 1

\* six files have gone through chunked mode, and all have succeeded
C19_Witness ==
    /\ ProcessingOver
    /\ nfiles = 6 /\ mode = "chunked"
    /\ hist[1].status = "returned"
    /\ Len(hist[1].value) = 6

---------------------------------------------------------------------------
(* C20 *)

\* main has shown an error
ErrorShown ==
    ui \cap {"processing_error", "no_results_error", "excel_error"} # {}

\* C20: main calls create_excel_file only with a list that is not empty,
\* shows the success message and the download only after create_excel_file
\* has returned True, and when every file failed or the write failed it
\* shows an error and offers no workbook.
C20_WorkbookOnlyOnSuccess ==
    /\ xpc # "off" =>
           /\ ProcessingOver
           /\ processed_data = hist[1].value
           /\ processed_data # <<>>
    /\ ui \cap {"success", "download"} # {} =>
           /\ xpc = "returned" /\ ret = "True"
           /\ disk.kind = "workbook"
    /\ (apc = "stopped" /\ ProcessingOver) =>
           /\ (hist[1].value = <<>> \/ ret = "False") =>
                  (ErrorShown /\ ui \cap {"success", "download"} = {})
           /\ ErrorShown \/ "download" \in ui

\* the write has failed on the results of two files: an error is shown and
\* no download
C20_Witness ==
    /\ apc = "stopped" /\ ProcessingOver
    /\ Len(hist[1].value) = 2
    /\ ret = "False"
    /\ "excel_error" \in ui
    /\ "download" \notin ui

=============================================================================
